---- MODULE Spec2Model ----
(***************************************************************************)
(* A model of src/pipe.py: the streaming relay Pipe.pipe, an async         *)
(* generator that opens a chat-completion request, reads the lines of the  *)
(* server-sent-events body and yields text fragments with think markers,   *)
(* and the model lister Pipe.pipes, which asks the remote API for its      *)
(* models and returns their descriptors.                                   *)
(*                                                                         *)
(* Every invocation of pipe is one generator object.  Its local variables  *)
(* and its position are kept per invocation; the configuration (valves)    *)
(* is the only state of the Pipe object itself.                            *)
(***************************************************************************)
EXTENDS Naturals, Sequences, FiniteSets, TLC

VARIABLES
    valves,      \* self.valves: the configuration of the Pipe object
    server,      \* the remote API of this run: what its response bodies may hold
    host,        \* the host application of this run: the model ids it passes to pipe
    catalog,     \* the answer to the GET /models of the last call of pipes (<<>> if none)
    listed,      \* how the last call of pipes ended (<<>> before the first call)
    requests,    \* the HTTP requests the calls of pipes have issued
    pc,          \* per invocation: where the generator is suspended
    state,       \* per invocation: the local variable state (State enum)
    conn,        \* per invocation: the client of the async-with block
    sent,        \* per invocation: the requests handed to chat.completions.create
    first_line,  \* per invocation: the local variable first_line (<<>> before it is read)
    decoder,     \* per invocation: the SSE decoder (<<>> before it is made)
    delta,       \* per invocation: the delta being relayed (<<>> outside an event)
    exc,         \* per invocation: the exception caught at the top level (<<>> if none)
    out,         \* per invocation: the fragments the consumer has received
    events,      \* per invocation: the data of the events the loop has been given
    nread,       \* per invocation: the number of lines read from the body
    ndata,       \* per invocation: the number of data lines among them
    aclose,      \* per invocation: the consumer's aclose() call and how it ended
    wire         \* per invocation: the lines of the body delivered so far, kept in
                 \* the runs that compare pipe with a relay given the same lines

\* The state of the model lister.
listing == <<catalog, listed, requests>>

vars == <<valves, server, host, listing, pc, state, conn, sent, first_line,
          decoder, delta, exc, out, events, nread, ndata, wire, aclose>>

(***************************************************************************)
(* Bounds of the model.                                                    *)
(***************************************************************************)
MaxLines == 7       \* lines of one response body, one invocation running
MaxData == 3        \* data lines of one response body
MaxLinesTwo == 2    \* lines of one response body, two invocations running

MaxLinesLive == 6   \* lines of one response body, in the runs checked for progress
MaxLinesIds == 2    \* lines of one response body, in the runs over the model ids
MaxIdLen == 3       \* characters of a model id
MaxLinesRef == 3    \* lines of one response body, in the runs that keep the lines

Invocations == {1, 2}

(***************************************************************************)
(* Values.                                                                 *)
(***************************************************************************)
Keys == {"reasoning_content", "content"}

\* The relay never looks into a text beyond its being empty or not, so the
\* model gives the k-th data line of a body its own two texts, one a key.
TextOf(key, k) == (IF key = "content" THEN "c" ELSE "r") \o ToString(k)

\* What a key of the k-th data line may hold: the empty text or its text.
ValsOf(key, k) == {"", TextOf(key, k)}

\* A delta is a dict: a function from the keys it holds to their values.
DeltasAt(k) ==
    UNION {{d \in [K -> UNION {ValsOf(key, k) : key \in K}] :
                \A key \in K : d[key] \in ValsOf(key, k)} : K \in SUBSET Keys}

\* The text of a data line.  "done" is [DONE]; "badjson" is text that is no
\* JSON; "baddelta" is JSON whose choices[0].delta is null; the others are JSON
\* objects without choices, with an empty choices list, with a choice that holds
\* no delta, and with a delta.
PayloadsAt(k) ==
    {[kind |-> x] : x \in {"done", "badjson", "baddelta", "nochoices",
                           "emptychoices", "nodelta"}}
    \cup {[kind |-> "delta", delta |-> d] : d \in DeltasAt(k)}

ErrorMessages == {"bad key"}

\* A line of the body, the k-th data line if it is one.  "blank" is the empty
\* line, "comment" a line that starts with a colon, "event" an event: field,
\* "data" a data: field, "errjson" a bare JSON object with error.message and
\* "json" a bare JSON object without.
LinesAt(k) ==
    {[k |-> x] : x \in {"blank", "comment", "event", "json"}}
    \cup {[k |-> "data", p |-> p] : p \in PayloadsAt(k)}
    \cup {[k |-> "errjson", msg |-> m] : m \in ErrorMessages}

\* The lines of a lean body: blank lines, the first-line error, and data lines
\* that hold [DONE], text that is no JSON, or a delta of non-empty texts.
IsLean(l) ==
    \/ l.k \in {"blank", "errjson"}
    \/ /\ l.k = "data"
       /\ \/ l.p.kind \in {"done", "badjson"}
          \/ /\ l.p.kind = "delta"
             /\ DOMAIN l.p.delta # {}
             /\ \A key \in DOMAIN l.p.delta : l.p.delta[key] # ""

\* Model ids are sequences of characters.
ModelIds == {<<"t", ".", "r">>, <<"r">>}
Bodies ==
    {[model |-> m, messages |-> "hi"] : m \in host.ids}
    \cup {[messages |-> "hi"], [model |-> <<"r">>]}

\* str(e) of the exceptions the steps of pipe raise.
KeyErrorModel == "'model'"
KeyErrorMessages == "'messages'"
ConnectionError == "Connection error."
StopAsyncIterationStr == ""
JSONDecodeError == "Expecting value: line 1 column 1 (char 0)"
TypeError == "argument of type 'NoneType' is not iterable"

ThinkOpen == "<think>"
ThinkClose == "</think>"

\* The fence of a Markdown code block: three backquote characters (a TLA+
\* string cannot hold a backquote, so the fence is written with tildes).
Fence == "~~~"

generate_json_error(err_msg) ==
    Fence \o "json\n{\n  \"error\": \"" \o err_msg \o "\",\n}\n" \o Fence \o "\n"

RECURSIVE IndexOfDot(_, _)
IndexOfDot(s, i) ==
    IF i > Len(s) THEN 0
    ELSE IF s[i] = "." THEN i
    ELSE IndexOfDot(s, i + 1)

RECURSIVE IndexOfLastDot(_, _)
IndexOfLastDot(s, i) ==
    IF i < 1 THEN 0
    ELSE IF s[i] = "." THEN i
    ELSE IndexOfLastDot(s, i - 1)

\* The id cut at its last "." (rsplit in place of split).
get_model_id_rsplit(pipe_id) ==
    IF IndexOfLastDot(pipe_id, Len(pipe_id)) > 0
    THEN SubSeq(pipe_id, IndexOfLastDot(pipe_id, Len(pipe_id)) + 1, Len(pipe_id))
    ELSE pipe_id

\* if "." in pipe_id: _, pipe_id = pipe_id.split(".", 1)
get_model_id(pipe_id) ==
    IF IndexOfDot(pipe_id, 1) > 0
    THEN SubSeq(pipe_id, IndexOfDot(pipe_id, 1) + 1, Len(pipe_id))
    ELSE pipe_id

(***************************************************************************)
(* The SSE decoder of the client library, as pipe uses it: decode(line)    *)
(* collects the fields of an event and returns the event at the blank line *)
(* that ends it, and otherwise returns None.                               *)
(***************************************************************************)
\* The decoder keeps the data lines of the event it is collecting; the model
\* keeps them as the text they join to (<<>> while there is none).
NewDecoder == [data |-> <<>>, event |-> FALSE]

\* "\n".join of the text collected so far and one more data line.  Text that
\* starts with [DONE] still starts with it; any other text followed by a
\* newline and more text is no JSON.
Joined(data, p) ==
    IF data = <<>> THEN p
    ELSE IF data[1].kind \in {"done", "donemore"} THEN [kind |-> "donemore"]
    ELSE [kind |-> "badjson"]

\* The data of a returned event: the empty text when no data line came.
SseData(data) == IF data = <<>> THEN [kind |-> "empty"] ELSE data[1]

\* decode(line): the decoder afterwards, and the event returned (<<>> for None).
Decode(dec, line) ==
    CASE line.k = "blank" ->
            IF dec.data = <<>> /\ ~dec.event
            THEN [dec |-> dec, sse |-> <<>>]
            ELSE [dec |-> NewDecoder, sse |-> <<SseData(dec.data)>>]
      [] line.k = "data" ->
            [dec |-> [dec EXCEPT !.data = <<Joined(@, line.p)>>], sse |-> <<>>]
      [] line.k = "event" ->
            [dec |-> [dec EXCEPT !.event = TRUE], sse |-> <<>>]
      [] OTHER -> [dec |-> dec, sse |-> <<>>]

(***************************************************************************)
(* The tests of pipe on a line, an event and a delta.                      *)
(***************************************************************************)
\* json.loads(first_line) succeeds and holds error.message.
IsErrorJson(line) == line.k = "errjson"

\* The [DONE] test left out.
IsDoneMissed(p) == FALSE

\* sse.data.startswith("[DONE]")
IsDone(p) == p.kind \in {"done", "donemore"}

\* sse.json() raises: the data is no JSON ([DONE] is none either).
JsonFails(p) == p.kind \in {"badjson", "empty", "done", "donemore"}

\* The event holds choices[0].delta.
HasDelta(p) == p.kind \in {"delta", "baddelta"}

\* The test of the value left out: key in delta alone.
HasKey(d, key) == key \in DOMAIN d

\* key in delta and delta[key] is truthy.
HasText(d, key) == key \in DOMAIN d /\ d[key] # ""

\* The think block opened at every reasoning fragment.
OpensAlways(st) == TRUE

\* state != State.THINKING
OpensThinking(st) == st # "THINKING"

\* A slip in the test that closes the think block: the wrong state.
ClosesThinkingOnContent(st) == st = "CONTENT"

\* The think block closed at the first content, opened or not.
ClosesUnlessContent(st) == st # "CONTENT"

\* state == State.THINKING
ClosesThinking(st) == st = "THINKING"

(***************************************************************************)
(* Init: the Pipe object after construction and the generators of the      *)
(* invocations before their first step.                                    *)
(***************************************************************************)
DefaultValves ==
    [NAME_PREFIX |-> "tencentcloud/",
     BASE_URL |-> "https://api.lkeap.cloud.tencent.com/v1",
     API_KEY |-> ""]

\* Everything but the configuration: the remote API and the host of the run,
\* no call of pipes made, and the generators of the invocations.
InitRun(running, srv, ids) ==
    /\ server = srv
    /\ host = [ids |-> ids]
    /\ catalog = <<>>
    /\ listed = <<>>
    /\ requests = <<>>
    /\ pc = [i \in Invocations |-> IF i \in running THEN "start" ELSE "unused"]
    /\ state = [i \in Invocations |-> "EMPTY"]
    /\ conn = [i \in Invocations |-> "none"]
    /\ sent = [i \in Invocations |-> {}]
    /\ first_line = [i \in Invocations |-> <<>>]
    /\ decoder = [i \in Invocations |-> <<>>]
    /\ delta = [i \in Invocations |-> <<>>]
    /\ exc = [i \in Invocations |-> <<>>]
    /\ out = [i \in Invocations |-> <<>>]
    /\ events = [i \in Invocations |-> <<>>]
    /\ nread = [i \in Invocations |-> 0]
    /\ ndata = [i \in Invocations |-> 0]
    /\ aclose = [i \in Invocations |-> "none"]
    /\ wire = [i \in Invocations |-> <<>>]

\* A remote API whose bodies hold up to `lines` lines.
Server(lines, lean) == [lines |-> lines, lean |-> lean, keep |-> FALSE]

InitWith(running, lines, lean) ==
    /\ valves = DefaultValves
    /\ InitRun(running, Server(lines, lean), ModelIds)

Init == InitWith({1}, MaxLines, FALSE)

(***************************************************************************)
(* The ways a step of the generator ends.                                  *)
(***************************************************************************)
YieldPoints == {"y98", "y120", "y121", "y127", "y128", "y130"}

\* The generator may run: it is not finished and no aclose() has ended on it.
Live(i) == aclose[i] \in {"none", "running"}

\* yield frag, suspending at the yield of line `at`.  While aclose() runs the
\* generator, a yield makes aclose() raise RuntimeError (async generator
\* ignored GeneratorExit) and the consumer does not receive the fragment.
Emit(i, frag, at) ==
    /\ pc' = [pc EXCEPT ![i] = at]
    /\ IF aclose[i] = "running"
       THEN /\ out' = out
            /\ aclose' = [aclose EXCEPT ![i] = "RuntimeError"]
       ELSE /\ out' = [out EXCEPT ![i] = Append(@, frag)]
            /\ aclose' = aclose

\* The generator finishes (return, or GeneratorExit leaves it).
Finish(i) ==
    /\ pc' = [pc EXCEPT ![i] = "done"]
    /\ out' = out
    /\ aclose' = [aclose EXCEPT ![i] = IF @ = "running" THEN "ok" ELSE @]

\* The loop goes on to read the next line.
Continue(i) ==
    /\ pc' = [pc EXCEPT ![i] = "loop"]
    /\ out' = out
    /\ aclose' = aclose

\* Leaving the async-with block releases the client.
Released(i) == [conn EXCEPT ![i] = IF @ = "open" THEN "released" ELSE @]

\* A handler that starts the request over instead of ending the stream.
HandleRetry(i, msg) ==
    /\ exc' = exc
    /\ pc' = [pc EXCEPT ![i] = "start"]
    /\ out' = out
    /\ aclose' = aclose

\* A handler that lets the exception leave the generator.
HandleReraise(i, msg) ==
    /\ exc' = [exc EXCEPT ![i] = <<msg>>]
    /\ Finish(i)

\* except Exception as e: yield self.generate_json_error(str(e))
Handle(i, msg) ==
    /\ exc' = [exc EXCEPT ![i] = <<msg>>]
    /\ Emit(i, generate_json_error(msg), "y130")

(***************************************************************************)
(* The relay of one delta (the body of the loop after the delta is found). *)
(***************************************************************************)
\* The state kept on the Pipe object, where every invocation writes it.
SetStateOnSelf(i, st) == [j \in Invocations |-> st]

\* state = State.THINKING, state = State.CONTENT: state is a local variable
\* of the invocation.
SetState(i, st) == [state EXCEPT ![i] = st]

\* if 'content' in delta: ... (the second half of the loop body)
RelayContent(i, d) ==
    IF HasText(d, "content")
    THEN IF ClosesThinking(state[i])
         THEN /\ state' = SetState(i, "CONTENT")
              /\ delta' = [delta EXCEPT ![i] = <<d>>]
              /\ Emit(i, ThinkClose, "y127")
         ELSE /\ state' = state
              /\ delta' = [delta EXCEPT ![i] = <<>>]
              /\ Emit(i, d["content"], "y128")
    ELSE /\ state' = state
         /\ delta' = [delta EXCEPT ![i] = <<>>]
         /\ Continue(i)

\* if 'reasoning_content' in delta: ... (the first half of the loop body)
RelayReasoning(i, d) ==
    IF HasText(d, "reasoning_content")
    THEN IF OpensThinking(state[i])
         THEN /\ state' = SetState(i, "THINKING")
              /\ delta' = [delta EXCEPT ![i] = <<d>>]
              /\ Emit(i, ThinkOpen, "y120")
         ELSE /\ state' = state
              /\ delta' = [delta EXCEPT ![i] = <<d>>]
              /\ Emit(i, d["reasoning_content"], "y121")
    ELSE RelayContent(i, d)

\* A relay that closes an open think block when [DONE] arrives.
OnDoneClosingThink(i) ==
    /\ conn' = Released(i)
    /\ UNCHANGED <<delta, exc>>
    /\ IF state[i] = "THINKING"
       THEN /\ state' = [state EXCEPT ![i] = "CONTENT"]
            /\ Emit(i, ThinkClose, "y130")
       ELSE /\ state' = state
            /\ Finish(i)

\* break: the loop and the async-with block are left, pipe returns.
OnDone(i) ==
    /\ conn' = Released(i)
    /\ Finish(i)
    /\ UNCHANGED <<state, delta, exc>>

\* The loop body on an event the decoder returned.
OnEvent(i, p) ==
    IF IsDone(p)
    THEN OnDone(i)
    ELSE IF JsonFails(p)
    THEN /\ conn' = Released(i)
         /\ Handle(i, JSONDecodeError)
         /\ UNCHANGED <<state, delta>>
    ELSE IF ~HasDelta(p)
    THEN /\ Continue(i)
         /\ UNCHANGED <<state, delta, conn, exc>>
    ELSE IF p.kind = "baddelta"
    THEN /\ conn' = Released(i)
         /\ Handle(i, TypeError)
         /\ UNCHANGED <<state, delta>>
    ELSE /\ RelayReasoning(i, p.delta)
         /\ UNCHANGED <<conn, exc>>

\* The decoder made and the first line not given to it.
EnterLoopFresh(i, line) ==
    /\ decoder' = [decoder EXCEPT ![i] = <<NewDecoder>>]
    /\ pc' = [pc EXCEPT ![i] = "loop"]

\* decoder = client._make_sse_decoder(); decoder.decode(first_line), and on
\* to the loop.  The event decode returns here is dropped.
EnterLoop(i, line) ==
    /\ decoder' = [decoder EXCEPT ![i] = <<Decode(NewDecoder, line).dec>>]
    /\ pc' = [pc EXCEPT ![i] = "loop"]

(***************************************************************************)
(* The lines the body may deliver next.                                    *)
(***************************************************************************)
NextLines(i) ==
    IF nread[i] >= server.lines THEN {}
    ELSE {l \in LinesAt(ndata[i] + 1) :
            /\ l.k = "data" => ndata[i] < MaxData
            /\ server.lean => IsLean(l)}

Count(i, line) ==
    /\ nread' = [nread EXCEPT ![i] = @ + 1]
    /\ ndata' = [ndata EXCEPT ![i] = IF line.k = "data" THEN @ + 1 ELSE @]
    /\ wire' = [wire EXCEPT ![i] = IF server.keep THEN Append(@, line) ELSE @]

(***************************************************************************)
(* The steps of the generator, from one suspension to the next.            *)
(***************************************************************************)
\* The first step: the client is opened and the request is made.
Start(i) ==
    /\ pc[i] = "start"
    /\ \E body \in Bodies, fail \in {"none", "client", "request"} :
         /\ IF fail = "client"
            THEN /\ conn' = conn
                 /\ sent' = sent
                 /\ Handle(i, ConnectionError)
            ELSE IF "model" \notin DOMAIN body
            THEN /\ conn' = [conn EXCEPT ![i] = "released"]
                 /\ sent' = sent
                 /\ Handle(i, KeyErrorModel)
            ELSE IF "messages" \notin DOMAIN body
            THEN /\ conn' = [conn EXCEPT ![i] = "released"]
                 /\ sent' = sent
                 /\ Handle(i, KeyErrorMessages)
            ELSE /\ sent' = [sent EXCEPT ![i] =
                                @ \cup {[model |-> get_model_id(body.model),
                                          messages |-> body.messages,
                                          stream |-> TRUE]}]
                 /\ IF fail = "request"
                    THEN /\ conn' = [conn EXCEPT ![i] = "released"]
                         /\ Handle(i, ConnectionError)
                    ELSE /\ conn' = [conn EXCEPT ![i] = "open"]
                         /\ pc' = [pc EXCEPT ![i] = "first_line"]
                         /\ UNCHANGED <<exc, out, aclose>>
    /\ UNCHANGED <<valves, server, host, listing, state, first_line, decoder, delta, events,
                   nread, ndata, wire>>

\* first_line = await line_iter.__anext__() and the check of the first line.
ReadFirstLine(i) ==
    /\ pc[i] = "first_line"
    /\ \E line \in NextLines(i) :
         /\ Count(i, line)
         /\ first_line' = [first_line EXCEPT ![i] = <<line>>]
         /\ IF IsErrorJson(line)
            THEN /\ Emit(i, generate_json_error(line.msg), "y98")
                 /\ UNCHANGED decoder
            ELSE /\ EnterLoop(i, line)
                 /\ UNCHANGED <<out, aclose>>
    /\ UNCHANGED <<valves, server, host, listing, state, conn, sent, delta, exc, events>>

\* The body is empty: __anext__ raises StopAsyncIteration.
EmptyBody(i) ==
    /\ pc[i] = "first_line"
    /\ conn' = Released(i)
    /\ Handle(i, StopAsyncIterationStr)
    /\ UNCHANGED <<valves, server, host, listing, state, sent, first_line, decoder, delta,
                   events, nread, ndata, wire>>

\* Reading a line fails (the connection breaks, the line does not decode).
ReadFails(i) ==
    /\ pc[i] \in {"first_line", "loop"}
    /\ Live(i)
    /\ conn' = Released(i)
    /\ Handle(i, ConnectionError)
    /\ UNCHANGED <<valves, server, host, listing, state, sent, first_line, decoder, delta,
                   events, nread, ndata, wire>>

\* One turn of async for line in line_iter.
ReadLine(i) ==
    /\ pc[i] = "loop"
    /\ Live(i)
    /\ \E line \in NextLines(i) :
         LET r == Decode(decoder[i][1], line) IN
         /\ Count(i, line)
         /\ decoder' = [decoder EXCEPT ![i] = <<r.dec>>]
         /\ IF r.sse = <<>>
            THEN UNCHANGED <<pc, state, conn, delta, exc, out, events, aclose>>
            ELSE /\ events' = [events EXCEPT ![i] = Append(@, r.sse[1])]
                 /\ OnEvent(i, r.sse[1])
    /\ UNCHANGED <<valves, server, host, listing, sent, first_line>>

\* The body ends: the loop ends, the async-with block is left, pipe returns.
EndOfBody(i) ==
    /\ pc[i] = "loop"
    /\ Live(i)
    /\ conn' = Released(i)
    /\ Finish(i)
    /\ UNCHANGED <<valves, server, host, listing, state, sent, first_line, decoder, delta, exc,
                   events, nread, ndata, wire>>

(***************************************************************************)
(* The consumer asks for the next fragment: the generator resumes after    *)
(* the yield it is suspended at.                                           *)
(***************************************************************************)
\* The return after the first-line error block left out.
ResumeFirstLineErrorNoReturn(i) ==
    /\ pc[i] = "y98"
    /\ aclose[i] = "none"
    /\ EnterLoop(i, first_line[i][1])
    /\ UNCHANGED <<valves, server, host, listing, state, conn, sent, first_line, delta, exc, out,
                   events, nread, ndata, wire, aclose>>

\* After the error block of the first line: return.
ResumeFirstLineError(i) ==
    /\ pc[i] = "y98"
    /\ aclose[i] = "none"
    /\ conn' = Released(i)
    /\ Finish(i)
    /\ UNCHANGED <<valves, server, host, listing, state, sent, first_line, decoder, delta, exc,
                   events, nread, ndata, wire>>

\* After yield "<think>": yield reasoning_content.
ResumeThinkOpen(i) ==
    /\ pc[i] = "y120"
    /\ aclose[i] = "none"
    /\ Emit(i, delta[i][1]["reasoning_content"], "y121")
    /\ UNCHANGED <<valves, server, host, listing, state, conn, sent, first_line, decoder, delta,
                   exc, events, nread, ndata, wire>>

\* The content half of the loop body as an elif of the reasoning half.
ResumeReasoningOnly(i) ==
    /\ pc[i] = "y121"
    /\ aclose[i] = "none"
    /\ delta' = [delta EXCEPT ![i] = <<>>]
    /\ Continue(i)
    /\ UNCHANGED <<valves, server, host, listing, state, conn, sent, first_line,
                   decoder, exc, events, nread, ndata, wire>>

\* After yield reasoning_content: the content half of the loop body.
ResumeReasoning(i) ==
    /\ pc[i] = "y121"
    /\ aclose[i] = "none"
    /\ RelayContent(i, delta[i][1])
    /\ UNCHANGED <<valves, server, host, listing, conn, sent, first_line, decoder, exc, events,
                   nread, ndata, wire>>

\* The yield of the content after "</think>" left out.
ResumeThinkCloseOnly(i) ==
    /\ pc[i] = "y127"
    /\ aclose[i] = "none"
    /\ delta' = [delta EXCEPT ![i] = <<>>]
    /\ Continue(i)
    /\ UNCHANGED <<valves, server, host, listing, state, conn, sent, first_line,
                   decoder, exc, events, nread, ndata, wire>>

\* After yield "</think>": yield content.
ResumeThinkClose(i) ==
    /\ pc[i] = "y127"
    /\ aclose[i] = "none"
    /\ Emit(i, delta[i][1]["content"], "y128")
    /\ delta' = [delta EXCEPT ![i] = <<>>]
    /\ UNCHANGED <<valves, server, host, listing, state, conn, sent, first_line, decoder, exc,
                   events, nread, ndata, wire>>

\* After yield content: the next turn of the loop.
ResumeContent(i) ==
    /\ pc[i] = "y128"
    /\ aclose[i] = "none"
    /\ Continue(i)
    /\ UNCHANGED <<valves, server, host, listing, state, conn, sent, first_line, decoder, delta,
                   exc, events, nread, ndata, wire>>

\* After the error block of the except clause: return.
ResumeError(i) ==
    /\ pc[i] = "y130"
    /\ aclose[i] = "none"
    /\ Finish(i)
    /\ UNCHANGED <<valves, server, host, listing, state, conn, sent, first_line, decoder, delta,
                   exc, events, nread, ndata, wire>>

(***************************************************************************)
(* The consumer closes the generator: aclose() throws GeneratorExit at the *)
(* yield the generator is suspended at.                                    *)
(***************************************************************************)
\* At the yield of the first-line error block the bare except: of the inner
\* try catches GeneratorExit, and pipe goes on to the decoder and the loop.
CloseAtFirstLineError(i) ==
    /\ pc[i] = "y98"
    /\ aclose[i] = "none"
    /\ aclose' = [aclose EXCEPT ![i] = "running"]
    /\ EnterLoop(i, first_line[i][1])
    /\ UNCHANGED <<valves, server, host, listing, state, conn, sent, first_line, delta, exc, out,
                   events, nread, ndata, wire>>

\* At a yield of the loop GeneratorExit leaves the async-with block, which
\* releases the client, and is no Exception: the generator finishes.
CloseInLoop(i) ==
    /\ pc[i] \in {"y120", "y121", "y127", "y128"}
    /\ aclose[i] = "none"
    /\ conn' = Released(i)
    /\ pc' = [pc EXCEPT ![i] = "done"]
    /\ aclose' = [aclose EXCEPT ![i] = "ok"]
    /\ delta' = [delta EXCEPT ![i] = <<>>]
    /\ UNCHANGED <<valves, server, host, listing, state, sent, first_line, decoder, exc, out,
                   events, nread, ndata, wire>>

\* At the yield of the except clause nothing is left to release.
CloseAtError(i) ==
    /\ pc[i] = "y130"
    /\ aclose[i] = "none"
    /\ pc' = [pc EXCEPT ![i] = "done"]
    /\ aclose' = [aclose EXCEPT ![i] = "ok"]
    /\ UNCHANGED <<valves, server, host, listing, state, conn, sent, first_line, decoder, delta,
                   exc, out, events, nread, ndata, wire>>

Resume(i) ==
    \/ ResumeFirstLineError(i)
    \/ ResumeThinkOpen(i)
    \/ ResumeReasoning(i)
    \/ ResumeThinkClose(i)
    \/ ResumeContent(i)
    \/ ResumeError(i)

Close(i) ==
    \/ CloseAtFirstLineError(i)
    \/ CloseInLoop(i)
    \/ CloseAtError(i)

Step(i) ==
    \/ Start(i)
    \/ ReadFirstLine(i)
    \/ EmptyBody(i)
    \/ ReadFails(i)
    \/ ReadLine(i)
    \/ EndOfBody(i)
    \/ Resume(i)
    \/ Close(i)

Next == \E i \in Invocations : Step(i)

Spec == Init /\ [][Next]_vars

\* Two invocations of pipe on the one Pipe object, interleaved at their
\* suspension points (every await and every yield).
InitTwo == InitWith(Invocations, MaxLinesTwo, TRUE)

SpecTwo == InitTwo /\ [][Next]_vars

\* One invocation whose consumer and whose event loop keep running it: a
\* step that can be taken is taken.
InitLive == InitWith({1}, MaxLinesLive, FALSE)

SpecLive == InitLive /\ [][Next]_vars /\ WF_vars(Next)

\* The model ids a host may pass: every text of up to MaxIdLen characters.
IdChars == {".", "a", "b"}
AllIds == UNION {[1..n -> IdChars] : n \in 0..MaxIdLen}

\* One invocation of a host that passes one of the model ids.
InitIds ==
    \E id \in AllIds :
        /\ valves = DefaultValves
        /\ InitRun({1}, Server(MaxLinesIds, TRUE), {id})

SpecIds == InitIds /\ [][Next]_vars

\* One invocation, the lines of its body kept as they are delivered.
InitRef ==
    /\ valves = DefaultValves
    /\ InitRun({1}, [Server(MaxLinesRef, FALSE) EXCEPT !.keep = TRUE], ModelIds)

SpecRef == InitRef /\ [][Next]_vars

(***************************************************************************)
(* The model lister: Pipe.pipes.  A call of pipes is one step: pipes is a  *)
(* plain function that returns before anything else runs.                  *)
(***************************************************************************)
MaxEntries == 2     \* entries of the data array of one answer
MaxCalls == 2       \* calls of pipes that issue a request

\* The configurations of the runs of pipes.
ApiKeys == {"", "sk-1"}
Prefixes == {"tencentcloud/", "x/"}

\* The id of the j-th entry of a data array: the ids of a catalog differ.
EntryId(j) == "m" \o ToString(j)

\* A JSON value that is null or a string: <<>> is null, <<t>> the string t.
EntryNames == {<<>>, <<"">>, <<"Model One">>}

\* What the j-th entry of a data array may be: null, or an object, given by
\* its fields (a function from the keys it holds to their values).
EntriesAt(j) ==
    {[kind |-> "null"],
     [kind |-> "object", fields |-> [x \in {} |-> ""]],
     [kind |-> "object", fields |-> [id |-> EntryId(j)]]}
    \cup {[kind |-> "object", fields |-> [name |-> n]] : n \in EntryNames}
    \cup {[kind |-> "object", fields |-> [id |-> EntryId(j), name |-> n]] :
            n \in EntryNames}

\* The data arrays of up to MaxEntries entries.
DataArrays ==
    UNION {{d \in [1..n -> UNION {EntriesAt(j) : j \in 1..n}] :
                \A j \in 1..n : d[j] \in EntriesAt(j)} : n \in 0..MaxEntries}

\* What the GET /models of one call does: the request raises, the body is no
\* JSON, the body is a JSON array, an object without data, an object whose
\* data is null, or an object whose data is a list of entries.
Answers ==
    {[kind |-> x] : x \in {"raises", "notjson", "array", "nodata", "datanull"}}
    \cup {[kind |-> "data", data |-> d] : d \in DataArrays}

\* The classes of the exceptions the try block of pipes raises; each is a
\* subclass of Exception.
Exceptions ==
    {"Exception", "RequestException", "JSONDecodeError", "KeyError", "TypeError"}

\* A handler that catches the failures of the request only.
CatchesRequestOnly(e) == e = "RequestException"

\* except Exception as e
Catches(e) == e \in Exceptions

\* The test on the key taken as passed.
KeyAssumed(v) == TRUE

\* if self.valves.API_KEY:
KeyConfigured(v) == v.API_KEY # ""

\* The headers and the URL of requests.get.
Request(v) ==
    [url |-> v.BASE_URL \o "/models",
     headers |-> ("Authorization" :> "Bearer " \o v.API_KEY)
                 @@ ("Content-Type" :> "application/json")]

\* What an f-string makes of a value: the text itself, and None for null.
Str(v) == IF v = <<>> THEN "None" ELSE v[1]

\* model.get("name", model["id"]): the value at name when the key is there,
\* model["id"] otherwise.
GetName(fields) ==
    IF "name" \in DOMAIN fields THEN fields.name ELSE <<fields.id>>

\* The outcome of a block: the exception it raised (<<>> if none) and the
\* value it came to.
Raised(e) == [raised |-> <<e>>, value |-> <<>>]
Value(v) == [raised |-> <<>>, value |-> v]

\* The list comprehension of lines 47-53 over the entries from the j-th on,
\* with acc built so far: an entry that is no object or holds no id raises,
\* and the list built so far is dropped.
RECURSIVE Describe(_, _, _, _)
Describe(data, j, prefix, acc) ==
    IF j > Len(data) THEN Value(acc)
    ELSE IF data[j].kind # "object" THEN Raised("TypeError")
    ELSE IF "id" \notin DOMAIN data[j].fields THEN Raised("KeyError")
    ELSE Describe(data, j + 1, prefix,
                  Append(acc, [id |-> data[j].fields.id,
                               name |-> prefix \o Str(GetName(data[j].fields))]))

\* r = requests.get(...); models = r.json(); the comprehension over
\* models["data"].
Fetch(answer, prefix) ==
    CASE answer.kind = "raises" -> Raised("RequestException")
      [] answer.kind = "notjson" -> Raised("JSONDecodeError")
      [] answer.kind = "array" -> Raised("TypeError")
      [] answer.kind = "nodata" -> Raised("KeyError")
      [] answer.kind = "datanull" -> Raised("TypeError")
      [] OTHER -> Describe(answer.data, 1, prefix, <<>>)

ErrorFetching ==
    [id |-> "error", name |-> "Error fetching models. Please check your API Key."]

NoKey == [id |-> "error", name |-> "API Key not provided."]

\* The try statement of pipes around a block that ended as r.
Try(r) ==
    IF r.raised # <<>> /\ Catches(r.raised[1]) THEN Value(<<ErrorFetching>>)
    ELSE r

\* One call of pipes.
pipes ==
    /\ Len(requests) < MaxCalls
    /\ IF KeyConfigured(valves)
       THEN IF valves.API_KEY = ""
            THEN /\ listed' = <<Try(Raised("Exception"))>>
                 /\ UNCHANGED <<catalog, requests>>
            ELSE \E answer \in Answers :
                   /\ requests' = Append(requests, Request(valves))
                   /\ catalog' = <<answer>>
                   /\ listed' = <<Try(Fetch(answer, valves.NAME_PREFIX))>>
       ELSE /\ listed' = <<Value(<<NoKey>>)>>
            /\ UNCHANGED <<catalog, requests>>
    /\ UNCHANGED <<valves, server, host, pc, state, conn, sent, first_line,
                   decoder, delta, exc, out, events, nread, ndata, wire, aclose>>

\* The Pipe object with a configuration the host has set, and its calls of
\* pipes; no invocation of pipe runs.
InitList ==
    /\ valves \in {[DefaultValves EXCEPT !.API_KEY = k, !.NAME_PREFIX = p] :
                     k \in ApiKeys, p \in Prefixes}
    /\ InitRun({}, Server(0, TRUE), ModelIds)

NextList == pipes

SpecList == InitList /\ [][NextList]_vars

(***************************************************************************)
(* The loop of pipe as a function of the events it is given: the state and *)
(* the fragments yielded when the loop ends or waits for the next line.    *)
(***************************************************************************)
\* The loop body on one delta.
RelayDelta(st, d) ==
    LET r == HasText(d, "reasoning_content")
        st1 == IF r /\ OpensThinking(st) THEN "THINKING" ELSE st
        f1 == IF r
              THEN (IF OpensThinking(st) THEN <<ThinkOpen>> ELSE <<>>)
                   \o <<d["reasoning_content"]>>
              ELSE <<>>
        c == HasText(d, "content")
        st2 == IF c /\ ClosesThinking(st1) THEN "CONTENT" ELSE st1
        f2 == IF c
              THEN (IF ClosesThinking(st1) THEN <<ThinkClose>> ELSE <<>>)
                   \o <<d["content"]>>
              ELSE <<>>
    IN  [state |-> st2, frags |-> f1 \o f2]

\* The loop on a list of events, from state st with acc yielded so far.  It
\* ends at [DONE] and at an event that makes the body raise.
RECURSIVE RelayAll(_, _, _)
RelayAll(evs, st, acc) ==
    IF evs = <<>> THEN [state |-> st, out |-> acc]
    ELSE LET p == Head(evs) IN
         IF IsDone(p) \/ JsonFails(p) \/ p.kind = "baddelta"
         THEN [state |-> st, out |-> acc]
         ELSE IF ~HasDelta(p)
         THEN RelayAll(Tail(evs), st, acc)
         ELSE LET r == RelayDelta(st, p.delta)
              IN  RelayAll(Tail(evs), r.state, acc \o r.frags)

\* The fragments of a run of pipe on the events evs that caught e (<<>> if
\* it caught nothing): what the loop yields, and the error block.
PipeOut(evs, e) ==
    RelayAll(evs, "EMPTY", <<>>).out
    \o (IF e = <<>> THEN <<>> ELSE <<generate_json_error(e[1])>>)

(***************************************************************************)
(* What the claims say of a response, read off the events and the output.  *)
(***************************************************************************)
\* The event carries a non-empty text at the key.
Carries(p, key) ==
    /\ p.kind = "delta"
    /\ key \in DOMAIN p.delta
    /\ p.delta[key] # ""

ReasoningOnly(p) == Carries(p, "reasoning_content") /\ ~Carries(p, "content")
ContentOnly(p) == Carries(p, "content") /\ ~Carries(p, "reasoning_content")

\* The invocation ran with a consumer that kept pulling, met no first-line
\* error and no failure, and has ended.
EndedClean(i) ==
    /\ pc[i] = "done"
    /\ aclose[i] = "none"
    /\ exc[i] = <<>>
    /\ first_line[i] # <<>>
    /\ first_line[i][1].k # "errjson"

\* evs is n >= 1 reasoning events, then m >= 1 content events, then [DONE].
ReasoningThenContent(evs, n) ==
    /\ n >= 1
    /\ Len(evs) >= n + 2
    /\ \A j \in 1..n : ReasoningOnly(evs[j])
    /\ \A j \in (n + 1)..(Len(evs) - 1) : ContentOnly(evs[j])
    /\ evs[Len(evs)].kind = "done"

ThinkThenAnswer(evs, n) ==
    <<ThinkOpen>>
    \o [j \in 1..n |-> evs[j].delta["reasoning_content"]]
    \o <<ThinkClose>>
    \o [j \in 1..(Len(evs) - 1 - n) |-> evs[n + j].delta["content"]]

CountOf(f, o) == Cardinality({j \in 1..Len(o) : o[j] = f})

\* C2: once the state has reached CONTENT it never goes back to THINKING, and
\* so "<think>" is emitted at most once per response.
C2_NoReturnToThinking ==
    /\ [][\A i \in Invocations :
            state[i] = "CONTENT" => state'[i] # "THINKING"]_vars
    /\ [](\A i \in Invocations : CountOf(ThinkOpen, out[i]) <= 1)

\* C3: when the consumer closes the generator at a yield, the client is
\* released, and afterwards pipe reads no line and produces no fragment.
C3_CloseReleases ==
    /\ [](\A i \in Invocations : aclose[i] # "none" => conn[i] # "open")
    /\ [][\A i \in Invocations :
            aclose[i] # "none"
                => (nread'[i] = nread[i] /\ out'[i] = out[i]
                    /\ decoder'[i] = decoder[i])]_vars

\* The messages an error block of pipe may carry.
Messages ==
    ErrorMessages \cup {KeyErrorModel, KeyErrorMessages, ConnectionError,
                        StopAsyncIterationStr, JSONDecodeError, TypeError}

ErrorBlocks == {generate_json_error(m) : m \in Messages}

NumErrorBlocks(o) == Cardinality({j \in 1..Len(o) : o[j] \in ErrorBlocks})

\* C4: a failure at any step of pipe, with a consumer that pulls, reaches the
\* consumer as exactly one error block generate_json_error(str(e)), yielded
\* last after the fragments already yielded, and the stream ends: the client
\* is released and nothing more is read or yielded.
C4_FailureBecomesErrorBlock ==
    /\ [](\A i \in Invocations :
            (exc[i] # <<>> /\ aclose[i] \in {"none", "ok"})
                => /\ pc[i] \in {"y130", "done"}
                   /\ out[i] # <<>>
                   /\ out[i][Len(out[i])] = generate_json_error(exc[i][1])
                   /\ NumErrorBlocks(out[i]) = 1
                   /\ conn[i] # "open")
    /\ [][\A i \in Invocations :
            (exc[i] = <<>> /\ exc'[i] # <<>> /\ aclose[i] = "none")
                => out'[i] = Append(out[i], generate_json_error(exc'[i][1]))]_vars
    /\ [][\A i \in Invocations :
            exc[i] # <<>>
                => (out'[i] = out[i] /\ nread'[i] = nread[i]
                    /\ exc'[i] = exc[i])]_vars

C4_Witness ==
    \E i \in Invocations :
        /\ pc[i] = "done"
        /\ aclose[i] = "none"
        /\ exc[i] = <<TypeError>>
        /\ Len(out[i]) = 4

\* C5: when the first line is JSON with error.message and the consumer pulls,
\* pipe yields the one fragment generate_json_error(message) and ends: no
\* decoder is made for the line, no further line is read, no event is
\* relayed and no other fragment is yielded.
C5_FirstLineError ==
    \A i \in Invocations :
        (first_line[i] # <<>> /\ first_line[i][1].k = "errjson"
         /\ aclose[i] = "none")
            => /\ pc[i] \in {"y98", "done"}
               /\ out[i] = <<generate_json_error(first_line[i][1].msg)>>
               /\ decoder[i] = <<>>
               /\ nread[i] = 1
               /\ events[i] = <<>>
               /\ exc[i] = <<>>
               /\ (pc[i] = "done" => conn[i] = "released")

C5_Witness ==
    \E i \in Invocations :
        /\ first_line[i] # <<>>
        /\ first_line[i][1].k = "errjson"
        /\ pc[i] = "done"
        /\ aclose[i] = "none"

\* The fragments of o, as a set.
Fragments(o) == {o[j] : j \in 1..Len(o)}

\* The first reasoning text came at event j and no content text came at or
\* after it: the response entered THINKING and stayed reasoning-only.
ReasoningOnlyFrom(evs, j) ==
    /\ Carries(evs[j], "reasoning_content")
    /\ \A h \in 1..(j - 1) : ~Carries(evs[h], "reasoning_content")
    /\ \A h \in j..Len(evs) : ~Carries(evs[h], "content")

\* C6: if no non-empty content fragment arrives after the state entered
\* THINKING, however the response ends, the output holds no "</think>".
C6_NoCloseWithoutContent ==
    \A i \in Invocations :
        \A j \in 1..Len(events[i]) :
            ReasoningOnlyFrom(events[i], j) => ThinkClose \notin Fragments(out[i])

\* A reasoning-only response that [DONE] ended, and one a failure ended.
C6_Witness ==
    \E i \in Invocations :
        /\ pc[i] = "done"
        /\ aclose[i] = "none"
        /\ Len(events[i]) = 3
        /\ ReasoningOnlyFrom(events[i], 1)
        /\ Carries(events[i][2], "reasoning_content")
        /\ events[i][3].kind = "done"
        /\ Len(out[i]) = 3

\* The events that carry nothing: no choices, an empty choices list, no
\* delta, or a delta whose two keys are each missing or empty.
Null(p) ==
    \/ p.kind \in {"nochoices", "emptychoices", "nodelta"}
    \/ /\ p.kind = "delta"
       /\ ~Carries(p, "reasoning_content")
       /\ ~Carries(p, "content")

WithoutNull(evs) == SelectSeq(evs, LAMBDA p : ~Null(p))

\* The generator waits for a line or has ended, with a consumer that pulled
\* and a first line that was no error.
Settled(i) ==
    /\ pc[i] \in {"loop", "y130", "done"}
    /\ aclose[i] = "none"
    /\ first_line[i] # <<>> => first_line[i][1].k # "errjson"

\* C7: an event that carries nothing yields no fragment and leaves the state
\* unchanged, and the output and the state of pipe are those of the same
\* events with every such event removed.
C7_NullEventsChangeNothing ==
    /\ [][\A i \in Invocations :
            (events'[i] # events[i] /\ Null(events'[i][Len(events'[i])]))
                => (out'[i] = out[i] /\ state'[i] = state[i]
                    /\ pc'[i] = "loop")]_vars
    /\ [](\A i \in Invocations :
            Settled(i)
                => /\ out[i] = PipeOut(WithoutNull(events[i]), exc[i])
                   /\ state[i]
                        = RelayAll(WithoutNull(events[i]), "EMPTY", <<>>).state)

C7_Witness ==
    \E i \in Invocations :
        /\ Settled(i)
        /\ Len(events[i]) = 3
        /\ Carries(events[i][1], "reasoning_content")
        /\ events[i][2].kind = "delta"
        /\ Null(events[i][2])
        /\ DOMAIN events[i][2].delta = Keys
        /\ Carries(events[i][3], "content")
        /\ Len(out[i]) = 4

\* The loop has been given an event whose data is [DONE].
DoneSeen(i) ==
    /\ events[i] # <<>>
    /\ events[i][Len(events[i])].kind = "done"

\* C8: when an event whose data is [DONE] is decoded, pipe stops without
\* error: the step yields nothing, the client is released, and afterwards no
\* line is read and no fragment of any kind is yielded.
C8_DoneStops ==
    /\ [](\A i \in Invocations :
            DoneSeen(i)
                => /\ pc[i] = "done"
                   /\ exc[i] = <<>>
                   /\ conn[i] = "released")
    /\ [][\A i \in Invocations :
            (DoneSeen(i) \/ DoneSeen(i)')
                => (out'[i] = out[i]
                    /\ (DoneSeen(i) => nread'[i] = nread[i]))]_vars

C8_Witness ==
    \E i \in Invocations :
        /\ DoneSeen(i)
        /\ aclose[i] = "none"
        /\ Len(out[i]) = 2
        /\ nread[i] < server.lines

\* All that belongs to one invocation: its locals, its position, its client,
\* its decoder, its output and its history.
Local(i) ==
    <<pc[i], state[i], conn[i], sent[i], first_line[i], decoder[i], delta[i],
      exc[i], out[i], events[i], nread[i], ndata[i], aclose[i], wire[i]>>

\* What the invocation yields when it runs alone on the first line and the
\* events it was given.
AloneOut(i) ==
    IF first_line[i] # <<>> /\ first_line[i][1].k = "errjson"
    THEN <<generate_json_error(first_line[i][1].msg)>>
    ELSE PipeOut(events[i], exc[i])

\* C9: with two invocations interleaved at their suspension points, a step
\* changes the locals, decoder, client and output of one invocation only and
\* never the configuration, and each invocation's state and output are the
\* ones it has when it runs alone on its own response.
C9_InvocationsIndependent ==
    /\ [][\E i \in Invocations :
            \A j \in Invocations \ {i} : Local(j)' = Local(j)]_vars
    /\ [][valves' = valves]_vars
    /\ [](\A i \in Invocations :
            (pc[i] \in {"loop", "y98", "y130", "done"} /\ aclose[i] = "none")
                => /\ out[i] = AloneOut(i)
                   /\ state[i] = RelayAll(events[i], "EMPTY", <<>>).state)

\* Both invocations are in the middle of their streams, in different states.
C9_Witness ==
    /\ pc[1] = "y120"
    /\ state[1] = "THINKING"
    /\ pc[2] = "y128"
    /\ state[2] = "CONTENT"
    /\ conn[1] = "open"
    /\ conn[2] = "open"

\* C10: with a response that ends (by [DONE], by the end of its body or by a
\* failure) and a consumer that keeps pulling and never closes, pipe
\* eventually ends; once it has ended it yields no further fragment.
C10_PipeEnds ==
    /\ <>(pc[1] = "done" \/ aclose[1] # "none")
    /\ [][\A i \in Invocations :
            pc[i] = "done" => (out'[i] = out[i] /\ pc'[i] = "done")]_vars

C10_Witness ==
    /\ pc[1] = "done"
    /\ aclose[1] = "none"
    /\ nread[1] = server.lines
    /\ Len(out[1]) = 4

(***************************************************************************)
(* What the claims say of a call of pipes, read off the configuration, the *)
(* answer of the remote API and what the call returned.                    *)
(***************************************************************************)
\* The entry is an object that holds an id.
HasId(e) == e.kind = "object" /\ "id" \in DOMAIN e.fields

\* The listing of the answer fails: the request raises, the body is no JSON
\* object, it holds no data list, or an entry of the list holds no id.
ListingFails(a) ==
    \/ a.kind \in {"raises", "notjson", "array", "nodata", "datanull"}
    \/ /\ a.kind = "data"
       /\ \E j \in 1..Len(a.data) : ~HasId(a.data[j])

\* The last call of pipes ran with a key and got the answer a.
Answered(a) ==
    /\ valves.API_KEY # ""
    /\ listed # <<>>
    /\ catalog = <<a>>

\* C11: when an API key is configured and the listing fails in any way, pipes
\* raises no exception and returns exactly the one-element list that holds
\* the descriptor "Error fetching models. Please check your API Key.", never
\* a part of the list of models.
C11_ListingFailure ==
    /\ listed # <<>> => listed[1].raised = <<>>
    /\ \A a \in Answers :
        (Answered(a) /\ ListingFails(a)) => listed = <<Value(<<ErrorFetching>>)>>

\* The first entry of the answer can be listed and the second holds no id.
C11_Witness ==
    \E a \in Answers :
        /\ Answered(a)
        /\ a.kind = "data"
        /\ Len(a.data) = 2
        /\ HasId(a.data[1])
        /\ a.data[2].kind = "object"
        /\ ~HasId(a.data[2])
        /\ listed = <<Value(<<ErrorFetching>>)>>

\* The listing of the answer succeeds: it holds a data list whose entries
\* all hold an id.
ListingSucceeds(a) ==
    /\ a.kind = "data"
    /\ \A j \in 1..Len(a.data) : HasId(a.data[j])

\* entry.name or entry.id: the name unless it is absent, null or empty.
NameOrId(fields) ==
    IF "name" \in DOMAIN fields /\ fields.name \notin {<<>>, <<"">>}
    THEN fields.name[1]
    ELSE fields.id

\* C12: on a successful listing pipes returns one descriptor per entry of the
\* data array, in its order, each {id: entry.id, name: prefix + (entry.name
\* or entry.id)}: an entry whose name is absent, null or empty is named
\* prefix + entry.id.
C12_SuccessfulListing ==
    \A a \in Answers :
        (Answered(a) /\ ListingSucceeds(a))
            => listed = <<Value([j \in 1..Len(a.data) |->
                            [id |-> a.data[j].fields.id,
                             name |-> valves.NAME_PREFIX
                                        \o NameOrId(a.data[j].fields)]])>>

\* C14: when the configured API key is empty, pipes returns exactly the
\* one-element list that holds the descriptor "API Key not provided.", raises
\* no exception and issues no HTTP request.
C14_NoKey ==
    valves.API_KEY = ""
        => /\ requests = <<>>
           /\ catalog = <<>>
           /\ listed # <<>> => listed = <<Value(<<NoKey>>)>>

C14_Witness ==
    /\ valves.API_KEY = ""
    /\ listed = <<Value(<<NoKey>>)>>
    /\ requests = <<>>

(***************************************************************************)
(* What the claims say of the model id pipe sends.                         *)
(***************************************************************************)
\* The text holds a "."; the place of its first one; the text after it.
HasDot(s) == \E k \in 1..Len(s) : s[k] = "."

FirstDot(s) ==
    CHOOSE k \in 1..Len(s) : s[k] = "." /\ \A h \in 1..(k - 1) : s[h] # "."

AfterFirstDot(s) == [j \in 1..(Len(s) - FirstDot(s)) |-> s[FirstDot(s) + j]]

Normalized(s) == IF HasDot(s) THEN AfterFirstDot(s) ELSE s

\* C13: get_model_id returns the part of a model id after its first "." (later
\* "." are kept) and the id unchanged when it holds no ".", and the request
\* pipe makes carries this normalized id as its model.
C13_ModelIdNormalized ==
    \A id \in host.ids :
        /\ get_model_id(id) = Normalized(id)
        /\ \A i \in Invocations :
             \A r \in sent[i] : r.model = Normalized(id)

\* A request was made for an id with two ".": the second one is kept.
C13_Witness ==
    \E id \in host.ids :
        /\ Len(id) = 3
        /\ id[1] # "."
        /\ id[2] = "."
        /\ id[3] = "."
        /\ [model |-> <<".">>, messages |-> "hi", stream |-> TRUE] \in sent[1]
        /\ pc[1] = "done"
        /\ exc[1] = <<>>

(***************************************************************************)
(* A relay that gives every line of the body, the first included, to one   *)
(* decoder and relays every event the decoder returns.                     *)
(***************************************************************************)
\* The events one decoder returns on the lines, from the decoder dec on,
\* after the events evs.
RECURSIVE DecodeAll(_, _, _)
DecodeAll(lines, dec, evs) ==
    IF lines = <<>> THEN evs
    ELSE LET r == Decode(dec, Head(lines))
         IN  DecodeAll(Tail(lines), r.dec,
                       IF r.sse = <<>> THEN evs ELSE Append(evs, r.sse[1]))

\* The exception the loop body raises on the events (<<>> if none): at the
\* first event that ends the loop, if it is not [DONE].
RECURSIVE FailureOf(_)
FailureOf(evs) ==
    IF evs = <<>> THEN <<>>
    ELSE IF IsDone(Head(evs)) THEN <<>>
    ELSE IF JsonFails(Head(evs)) THEN <<JSONDecodeError>>
    ELSE IF Head(evs).kind = "baddelta" THEN <<TypeError>>
    ELSE FailureOf(Tail(evs))

\* What the relay yields on the lines, when reading them failed with e (<<>>
\* if no read failed).
ReferenceOut(lines, e) ==
    LET evs == DecodeAll(lines, NewDecoder, <<>>)
    IN  PipeOut(evs, IF FailureOf(evs) # <<>> THEN FailureOf(evs) ELSE e)

\* C15: for every response whose first line is no JSON error payload, the
\* output of pipe is the output of the relay that gives every line, the first
\* included, to one decoder: the event whose data line is the first line of
\* the body is relayed, although pipe drops what decoding the first line
\* returns.
C15_FirstLineThroughDecoder ==
    \A i \in Invocations :
        (Settled(i) /\ first_line[i] # <<>>)
            => /\ events[i] = DecodeAll(wire[i], NewDecoder, <<>>)
               /\ out[i] = ReferenceOut(wire[i], exc[i])

\* The first line is a data line with a reasoning text and a blank line ends
\* its event.
C15_Witness ==
    \E i \in Invocations :
        /\ Settled(i)
        /\ Len(wire[i]) = 2
        /\ wire[i][1] = first_line[i][1]
        /\ wire[i][1].k = "data"
        /\ Carries(wire[i][1].p, "reasoning_content")
        /\ wire[i][2].k = "blank"
        /\ out[i] = <<ThinkOpen, TextOf("reasoning_content", 1)>>

(***************************************************************************)
(* What the claims say of the markers and the texts of an output.          *)
(***************************************************************************)
IsMarker(f) == f \in {ThinkOpen, ThinkClose}

Markers(o) == SelectSeq(o, IsMarker)

\* The marker pipe is suspended with, when it yielded it into a running
\* aclose() and the consumer did not receive it.
UndeliveredMarker(i) ==
    IF aclose[i] = "RuntimeError" /\ pc[i] = "y120" THEN <<ThinkOpen>>
    ELSE IF aclose[i] = "RuntimeError" /\ pc[i] = "y127" THEN <<ThinkClose>>
    ELSE <<>>

\* The markers pipe has yielded: those the consumer received and the one
\* that was not delivered.
YieldedMarkers(i) == Markers(out[i]) \o UndeliveredMarker(i)

\* C16: in every output the markers alternate strictly and begin with
\* "<think>" (no "</think>" without an open "<think>" before it, no two
\* "<think>" without a "</think>" between them), and the state is THINKING
\* exactly when the last marker yielded is "<think>".
C16_MarkersAlternate ==
    \A i \in Invocations :
        LET m == YieldedMarkers(i) IN
        /\ \A j \in 1..Len(m) :
             m[j] = IF j % 2 = 1 THEN ThinkOpen ELSE ThinkClose
        /\ state[i] = "THINKING" <=> (m # <<>> /\ m[Len(m)] = ThinkOpen)

\* A think block was opened, closed and opened again.
C16_Witness ==
    \E i \in Invocations :
        /\ Markers(out[i]) = <<ThinkOpen, ThinkClose, ThinkOpen>>
        /\ state[i] = "THINKING"
        /\ pc[i] = "loop"

IsText(f) == ~IsMarker(f) /\ f \notin ErrorBlocks

\* The output without its markers and its error block.
Texts(o) == SelectSeq(o, IsText)

\* The non-empty reasoning_content and content values of the events before
\* [DONE] and before the event the loop body fails on, in event order.
RECURSIVE TextsOf(_)
TextsOf(evs) ==
    IF evs = <<>> THEN <<>>
    ELSE LET p == Head(evs) IN
         IF p.kind \notin {"delta", "nochoices", "emptychoices", "nodelta"}
         THEN <<>>
         ELSE (IF Carries(p, "reasoning_content")
               THEN <<p.delta["reasoning_content"]>> ELSE <<>>)
              \o (IF Carries(p, "content") THEN <<p.delta["content"]>> ELSE <<>>)
              \o TextsOf(Tail(evs))

IsPrefix(a, b) == Len(a) <= Len(b) /\ a = SubSeq(b, 1, Len(a))

\* C17: the output without its markers and its error block is exactly the
\* non-empty reasoning_content and content values of the events decoded
\* before [DONE], the end of the stream or a failure, in event order; while
\* an event is being relayed it is the part of them yielded so far.
C17_TextsPreserved ==
    \A i \in Invocations :
        /\ IsPrefix(Texts(out[i]), TextsOf(events[i]))
        /\ Settled(i) => Texts(out[i]) = TextsOf(events[i])

\* Reasoning, then an event with both texts, then a failure.
C17_Witness ==
    \E i \in Invocations :
        /\ Settled(i)
        /\ pc[i] = "done"
        /\ exc[i] = <<JSONDecodeError>>
        /\ Len(events[i]) = 3
        /\ Texts(out[i]) = <<TextOf("reasoning_content", 1),
                             TextOf("reasoning_content", 2), TextOf("content", 2)>>
        /\ Len(out[i]) = 6

\* No event of the invocation carries a reasoning text.
ContentOnlyResponse(i) ==
    \A j \in 1..Len(events[i]) : ~Carries(events[i][j], "reasoning_content")

\* C18: a response in which no non-empty reasoning fragment ever arrives is
\* relayed without any marker: the output is exactly the non-empty content
\* texts in order (and the error block, if the response fails).
C18_ContentOnlyNoMarkers ==
    \A i \in Invocations :
        ContentOnlyResponse(i)
            => /\ YieldedMarkers(i) = <<>>
               /\ Settled(i)
                    => out[i] = TextsOf(events[i])
                                \o (IF exc[i] = <<>> THEN <<>>
                                    ELSE <<generate_json_error(exc[i][1])>>)

\* Two content fragments, then [DONE].
C18_Witness ==
    \E i \in Invocations :
        /\ ContentOnlyResponse(i)
        /\ Settled(i)
        /\ pc[i] = "done"
        /\ Len(events[i]) = 3
        /\ events[i][3].kind = "done"
        /\ out[i] = <<TextOf("content", 1), TextOf("content", 2)>>
        /\ state[i] = "EMPTY"

\* All but the last element of a sequence.
Front(q) == SubSeq(q, 1, Len(q) - 1)

\* The loop has relayed its last event, which carries both texts, and waits
\* for the next line.
BothRelayed(i) ==
    /\ pc[i] = "loop"
    /\ aclose[i] = "none"
    /\ events[i] # <<>>
    /\ Carries(events[i][Len(events[i])], "reasoning_content")
    /\ Carries(events[i][Len(events[i])], "content")

\* C19: an event that carries both a non-empty reasoning_content r and a
\* non-empty content c adds to the output r, "</think>", c in this order, with
\* "<think>" before r when the state was not THINKING, and leaves the state
\* CONTENT.
C19_BothInOneEvent ==
    \A i \in Invocations :
        BothRelayed(i)
            => LET before == RelayAll(Front(events[i]), "EMPTY", <<>>)
                   d == events[i][Len(events[i])].delta
               IN  /\ state[i] = "CONTENT"
                   /\ out[i] = before.out
                                \o (IF before.state # "THINKING"
                                    THEN <<ThinkOpen>> ELSE <<>>)
                                \o <<d["reasoning_content"], ThinkClose, d["content"]>>

\* An event with both texts in the state THINKING, and one more after it.
C19_Witness ==
    \E i \in Invocations :
        /\ BothRelayed(i)
        /\ Len(events[i]) = 3
        /\ ReasoningOnly(events[i][1])
        /\ Carries(events[i][2], "reasoning_content")
        /\ Carries(events[i][2], "content")
        /\ Len(out[i]) = 9

====
